---- MODULE Spec2Model ----
(***************************************************************************)
(* Watch Party: the WebSocket room core of server.js.                      *)
(*                                                                         *)
(* State: the room registry (rooms), the Room objects it and the handlers' *)
(* closures refer to (heap), every connection's closure variables, the     *)
(* pending cleanup timers, the clock, and what the last handler sent.      *)
(* One action per event-loop callback: connection, message, close, the     *)
(* cleanup timer; plus the transport's own OPEN -> CLOSING step and the    *)
(* passing of time.                                                        *)
(***************************************************************************)
EXTENDS Integers, Sequences, FiniteSets

VARIABLES
    revision,    \* which of the two definitions of the handlers in server.js runs
    clock,       \* Date.now(), in milliseconds
    rooms,       \* the registry: roomId -> reference into heap (NoRoom: no entry)
    heap,        \* the Room objects ever allocated, [clients, state]
    readyState,  \* ws.readyState of every connection handle
    roomOf,      \* closure variable `room` of every connection
    roomIdOf,    \* closure variable `roomId` of every connection
    timers,      \* pending setTimeout callbacks, in creation order
    sent,        \* what the last callback passed to send(), per handle
    ev,          \* the last callback that ran
    emptySince,  \* per Room object: clock when its client set last became empty
    crashed,     \* an exception left a callback uncaught: the process is gone
    threw,       \* the handle whose send() threw in the last callback (NoConn: none)
    intended,    \* per Room object: what the actions applied to it were meant to leave
    processed,   \* per Room object: the actions applied to it, in order (SpecOrder)
    delivered,   \* per handle: how far into its Room's actions its echoes reach (SpecOrder)
    received     \* how many inbound messages the server was handed (Spec bounds it)

vars == <<revision, clock, rooms, heap, readyState, roomOf, roomIdOf, timers,
          sent, ev, emptySince, crashed, threw, intended, processed, delivered,
          received>>

(***************************************************************************)
(* Bounds of the model.                                                    *)
(***************************************************************************)
NumConns == 3        \* connection handles
MaxTicks == 1        \* how many times the clock advances
MsgConns == 2        \* connections opened under Spec, which sends every text
MaxMessages == 2     \* inbound messages handled under Spec

Conns == 1..NumConns
NoConn == 0
NoRoom == 0

(***************************************************************************)
(* Program constants.                                                      *)
(***************************************************************************)
IdleMs == 5 * 60 * 1000

\* The clock is read at multiples of the idle window.
TickMs == IdleMs

\* ws.readyState: the handlers compare it with 1
OPEN == 1
CONNECTING == OPEN - 1
CLOSING == OPEN + 1
CLOSED == OPEN + 2

(***************************************************************************)
(* JavaScript values as they come out of JSON.parse, tagged by typeof.     *)
(***************************************************************************)
Undefined == [k |-> "undefined", n |-> 0, s |-> ""]
JNull == [k |-> "null", n |-> 0, s |-> ""]
JNum(x) == [k |-> "number", n |-> x, s |-> ""]
JStr(x) == [k |-> "string", n |-> 0, s |-> x]

\* The number JSON.parse returns for a literal beyond the range of a double.
Infinity == [k |-> "number", n |-> 0, s |-> "Infinity"]

\* !v
Falsy(v) ==
    \/ v.k \in {"undefined", "null"}
    \/ v.k = "number" /\ v.n = 0 /\ v.s = ""
    \/ v.k = "string" /\ v.s = ""

\* a || b
OrElse(a, b) == IF Falsy(a) THEN b ELSE a

\* a ?? b
Coalesce(a, b) == IF a.k \in {"undefined", "null"} THEN b ELSE a

(***************************************************************************)
(* A parsed message: the value JSON.parse returned.  k is the kind of the  *)
(* value; an object carries its type, time and src properties (Undefined   *)
(* when the property is absent).                                           *)
(***************************************************************************)
JObj(ty, ti, sr) == [ok |-> TRUE, k |-> "object", type |-> ty, time |-> ti, src |-> sr]
JVal(kind) == [ok |-> TRUE, k |-> kind, type |-> Undefined, time |-> Undefined, src |-> Undefined]
SyntaxError == [ok |-> FALSE, k |-> "", type |-> Undefined, time |-> Undefined, src |-> Undefined]

\* The message texts the clients of the model send.
RawInputs == {
    "{bad",
    "null",
    "42",
    "{}",
    "{\"type\":\"dance\"}",
    "{\"type\":\"setSource\",\"src\":\"a.mp4\"}",
    "{\"type\":\"setSource\"}",
    "{\"type\":\"setSource\",\"src\":5}",
    "{\"type\":\"play\",\"time\":7}",
    "{\"type\":\"play\"}",
    "{\"type\":\"pause\",\"time\":0}",
    "{\"type\":\"pause\",\"time\":null}",
    "{\"type\":\"seek\",\"time\":7}",
    "{\"type\":\"seek\"}",
    "{\"type\":\"seek\",\"time\":\"x\"}",
    "{\"type\":\"seek\",\"time\":1e400}",
    "{\"type\":\"syncRequest\"}" }

\* The texts sent where the rooms' lifecycle is explored.
RoomInputs == { "{\"type\":\"play\",\"time\":7}", "{\"type\":\"syncRequest\"}" }

\* JSON.parse(raw) on those texts.
JSONparse(raw) ==
    CASE raw = "null" -> JVal("null")
      [] raw = "42" -> JVal("number")
      [] raw = "{}" -> JObj(Undefined, Undefined, Undefined)
      [] raw = "{\"type\":\"dance\"}" -> JObj(JStr("dance"), Undefined, Undefined)
      [] raw = "{\"type\":\"setSource\",\"src\":\"a.mp4\"}" -> JObj(JStr("setSource"), Undefined, JStr("a.mp4"))
      [] raw = "{\"type\":\"setSource\"}" -> JObj(JStr("setSource"), Undefined, Undefined)
      [] raw = "{\"type\":\"setSource\",\"src\":5}" -> JObj(JStr("setSource"), Undefined, JNum(5))
      [] raw = "{\"type\":\"play\",\"time\":7}" -> JObj(JStr("play"), JNum(7), Undefined)
      [] raw = "{\"type\":\"play\"}" -> JObj(JStr("play"), Undefined, Undefined)
      [] raw = "{\"type\":\"pause\",\"time\":0}" -> JObj(JStr("pause"), JNum(0), Undefined)
      [] raw = "{\"type\":\"pause\",\"time\":null}" -> JObj(JStr("pause"), JNull, Undefined)
      [] raw = "{\"type\":\"seek\",\"time\":7}" -> JObj(JStr("seek"), JNum(7), Undefined)
      [] raw = "{\"type\":\"seek\"}" -> JObj(JStr("seek"), Undefined, Undefined)
      [] raw = "{\"type\":\"seek\",\"time\":\"x\"}" -> JObj(JStr("seek"), JStr("x"), Undefined)
      [] raw = "{\"type\":\"seek\",\"time\":1e400}" -> JObj(JStr("seek"), Infinity, Undefined)
      [] raw = "{\"type\":\"seek\",\"time\":null}" -> JObj(JStr("seek"), JNull, Undefined)
      [] raw = "{\"type\":\"syncRequest\"}" -> JObj(JStr("syncRequest"), Undefined, Undefined)
      [] OTHER -> SyntaxError

\* msg.type: a TypeError on null, undefined on the other non-objects.
ThrowsOnType(msg) == msg.k = "null"
TypeOf(msg) == IF msg.k = "object" THEN msg.type ELSE Undefined

\* msg.type === name
TypeIs(msg, name) == TypeOf(msg).k = "string" /\ TypeOf(msg).s = name

(***************************************************************************)
(* The connection request: params.get('room') || 'default'.                *)
(***************************************************************************)
Urls == { "/watchparty", "/watchparty?room=", "/watchparty?room=default",
          "/watchparty?room=abc" }

\* new URLSearchParams(req.url.split('?')[1] || '').get('room'); null when absent
QueryRoom(url) ==
    CASE url = "/watchparty?room=" -> JStr("")
      [] url = "/watchparty?room=default" -> JStr("default")
      [] url = "/watchparty?room=abc" -> JStr("abc")
      [] OTHER -> JNull

\* A room id read with ?? where the code has ||.
RoomIdOfUrlCoalesce(url) == Coalesce(QueryRoom(url), JStr("default")).s

RoomIdOfUrl(url) == OrElse(QueryRoom(url), JStr("default")).s

RoomIds == { RoomIdOfUrl(u) : u \in Urls }

\* The request url of the connections that share one room.
OneRoomUrls == { "/watchparty" }

(***************************************************************************)
(* Outbound messages: the value handed to JSON.stringify.                  *)
(***************************************************************************)
NoState == [playing |-> FALSE, time |-> Undefined, updatedAt |-> 0, src |-> Undefined]
SyncState(state) == [type |-> "syncState", state |-> state, msg |-> SyntaxError]
Echo(msg) == [type |-> "echo", state |-> NoState, msg |-> msg]

\* JSON.stringify(msg), the text of an echo: the properties of the message in
\* their order, an absent one left out, a number that is not finite written
\* as null.  The texts of the model have no white space, so a message whose
\* numbers are finite is written as the text it was parsed from.
WireValue(v) == IF v = Infinity THEN JNull ELSE v
WireTexts == RawInputs \cup { "{\"type\":\"seek\",\"time\":null}" }
JSONstringify(msg) ==
    CHOOSE text \in WireTexts :
        JSONparse(text) = [msg EXCEPT !.time = WireValue(@), !.src = WireValue(@)]

Nothing == [c \in Conns |-> <<>>]
Event(kind, c, raw) == [kind |-> kind, conn |-> c, raw |-> raw]

(***************************************************************************)
(* getOrCreateRoom(roomId): the registry and the heap after the call, and  *)
(* the Room it returns.                                                    *)
(***************************************************************************)
DefaultState(now) == [playing |-> FALSE, time |-> JNum(0), updatedAt |-> now, src |-> JNull]

\* A getOrCreateRoom without the rooms.has test: every call registers a new Room.
getOrCreateRoomAlways(roomId) ==
    [rooms |-> [rooms EXCEPT ![roomId] = Len(heap) + 1],
     heap |-> Append(heap, [clients |-> {}, state |-> DefaultState(clock)]),
     room |-> Len(heap) + 1]

\* A getOrCreateRoom that gives the Room it finds a new client set.
getOrCreateRoomNewSet(roomId) ==
    IF rooms[roomId] = NoRoom
    THEN [rooms |-> [rooms EXCEPT ![roomId] = Len(heap) + 1],
          heap |-> Append(heap, [clients |-> {}, state |-> DefaultState(clock)]),
          room |-> Len(heap) + 1]
    ELSE [rooms |-> rooms,
          heap |-> [heap EXCEPT ![rooms[roomId]].clients = {}],
          room |-> rooms[roomId]]

getOrCreateRoom(roomId) ==
    IF rooms[roomId] = NoRoom
    THEN [rooms |-> [rooms EXCEPT ![roomId] = Len(heap) + 1],
          heap |-> Append(heap, [clients |-> {}, state |-> DefaultState(clock)]),
          room |-> Len(heap) + 1]
    ELSE [rooms |-> rooms, heap |-> heap, room |-> rooms[roomId]]

(***************************************************************************)
(* broadcast(room, payload, except): what each handle is sent.             *)
(***************************************************************************)
\* A send() without the try block around it.
NoSendCatch == FALSE

\* try { client.send(...) } catch {}
CatchesSendError == TRUE

\* A broadcast without the readyState test.
broadcastAnyState(room, payload, except, throws) ==
    [c \in Conns |->
        IF c \in heap[room].clients /\ ~(except # NoConn /\ c = except)
        THEN <<Echo(payload)>>
        ELSE <<>>]

\* A broadcast over the clients of every Room.
broadcastEveryRoom(room, payload, except, throws) ==
    [c \in Conns |->
        IF readyState[c] = OPEN /\ ~(except # NoConn /\ c = except)
        THEN <<Echo(payload)>>
        ELSE <<>>]

\* The calls of send(): the loop visits the clients in insertion order, which is
\* the order of the handles; throws is the client whose send() throws.  An
\* exception that is not caught ends the loop.
broadcast(room, payload, except, throws) ==
    [c \in Conns |->
        IF /\ c \in heap[room].clients
           /\ readyState[c] = OPEN
           /\ ~(except # NoConn /\ c = except)
           /\ (throws = NoConn \/ CatchesSendError \/ c <= throws)
        THEN <<Echo(payload)>>
        ELSE <<>>]

(***************************************************************************)
(* applyAction(room, action): the Room's state after the call.             *)
(***************************************************************************)
\* An applyAction that reads a play's or pause's time with || where the code has ??.
applyActionOr(state, action, now) ==
    IF TypeIs(action, "setSource")
    THEN [playing |-> FALSE, time |-> JNum(0), updatedAt |-> now,
          src |-> OrElse(action.src, JNull)]
    ELSE IF TypeIs(action, "seek")
    THEN [state EXCEPT !.time = OrElse(action.time, JNum(0)), !.updatedAt = now]
    ELSE IF TypeIs(action, "play")
    THEN [state EXCEPT !.playing = TRUE, !.time = OrElse(action.time, state.time),
                       !.updatedAt = now]
    ELSE IF TypeIs(action, "pause")
    THEN [state EXCEPT !.playing = FALSE, !.time = OrElse(action.time, state.time),
                       !.updatedAt = now]
    ELSE state

\* An applyAction that leaves updatedAt alone.
applyActionNoStamp(state, action, now) ==
    IF TypeIs(action, "setSource")
    THEN [state EXCEPT !.playing = FALSE, !.time = JNum(0),
                       !.src = OrElse(action.src, JNull)]
    ELSE IF TypeIs(action, "seek")
    THEN [state EXCEPT !.time = OrElse(action.time, JNum(0))]
    ELSE IF TypeIs(action, "play")
    THEN [state EXCEPT !.playing = TRUE, !.time = Coalesce(action.time, state.time)]
    ELSE IF TypeIs(action, "pause")
    THEN [state EXCEPT !.playing = FALSE, !.time = Coalesce(action.time, state.time)]
    ELSE state

\* An applyAction whose seek also pauses.
applyActionSeekPauses(state, action, now) ==
    IF TypeIs(action, "setSource")
    THEN [playing |-> FALSE, time |-> JNum(0), updatedAt |-> now,
          src |-> OrElse(action.src, JNull)]
    ELSE IF TypeIs(action, "seek")
    THEN [state EXCEPT !.playing = FALSE, !.time = OrElse(action.time, JNum(0)),
                       !.updatedAt = now]
    ELSE IF TypeIs(action, "play")
    THEN [state EXCEPT !.playing = TRUE, !.time = Coalesce(action.time, state.time),
                       !.updatedAt = now]
    ELSE IF TypeIs(action, "pause")
    THEN [state EXCEPT !.playing = FALSE, !.time = Coalesce(action.time, state.time),
                       !.updatedAt = now]
    ELSE state

applyAction(state, action, now) ==
    IF TypeIs(action, "setSource")
    THEN [playing |-> FALSE, time |-> JNum(0), updatedAt |-> now,
          src |-> OrElse(action.src, JNull)]
    ELSE IF TypeIs(action, "seek")
    THEN [state EXCEPT !.time = OrElse(action.time, JNum(0)), !.updatedAt = now]
    ELSE IF TypeIs(action, "play")
    THEN [state EXCEPT !.playing = TRUE, !.time = Coalesce(action.time, state.time),
                       !.updatedAt = now]
    ELSE IF TypeIs(action, "pause")
    THEN [state EXCEPT !.playing = FALSE, !.time = Coalesce(action.time, state.time),
                       !.updatedAt = now]
    ELSE state

(***************************************************************************)
(* The message handler's dispatch.                                         *)
(***************************************************************************)
\* The types the handler applies and broadcasts.
IsAction(msg) ==
    \/ TypeIs(msg, "setSource")
    \/ TypeIs(msg, "play")
    \/ TypeIs(msg, "pause")
    \/ TypeIs(msg, "seek")

\* The third argument of broadcast: null for setSource in the first definition
\* of the handler, the sender everywhere else.
\* A handler that passes null for every action.
exceptNobody(msg, ws) == NoConn

exceptOf(msg, ws) ==
    IF revision = 1 /\ TypeIs(msg, "setSource") THEN NoConn ELSE ws

\* JSON.parse outside a try block.
NoCatch == FALSE

\* catch { return; } around JSON.parse
CatchesSyntaxError == TRUE

\* A reply handed to every connection instead of the requester.
syncReplyToAll(state, ws) == [c \in Conns |-> <<SyncState(state)>>]

\* A reply that carries the state of a new Room where the code reads room.state.
syncReplyDefault(state, ws) ==
    [c \in Conns |-> IF c = ws THEN <<SyncState(DefaultState(0))>> ELSE <<>>]

\* ws.send(JSON.stringify({ type: 'syncState', state: room.state }))
syncReply(state, ws) == [c \in Conns |-> IF c = ws THEN <<SyncState(state)>> ELSE <<>>]

(***************************************************************************)
(* A Room that is in no registry entry and has no client is out of reach:  *)
(* joins find Rooms through the registry, handlers through the closure of  *)
(* a connection that is still among the clients, and a pending timer reads *)
(* the client set only.  Its state is dropped, as the garbage collector    *)
(* may.                                                                    *)
(***************************************************************************)
Collect(h, reg) ==
    [r \in DOMAIN h |->
        IF h[r].clients = {} /\ \A id \in RoomIds : reg[id] # r
        THEN [h[r] EXCEPT !.state = NoState]
        ELSE h[r]]

(***************************************************************************)
(* Init: the server has started; no connection yet.                        *)
(***************************************************************************)
Init ==
    /\ revision \in {1, 2}
    /\ clock = 0
    /\ rooms = [id \in RoomIds |-> NoRoom]
    /\ heap = <<>>
    /\ readyState = [c \in Conns |-> CONNECTING]
    /\ roomOf = [c \in Conns |-> NoRoom]
    /\ roomIdOf = [c \in Conns |-> ""]
    /\ timers = <<>>
    /\ sent = Nothing
    /\ ev = Event("start", NoConn, "")
    /\ emptySince = <<>>
    /\ crashed = FALSE
    /\ threw = NoConn
    /\ intended = <<>>
    /\ processed = <<>>
    /\ delivered = [c \in Conns |-> 0]
    /\ received = 0

(***************************************************************************)
(* wss.on('connection'): handles are numbered in the order they connect.   *)
(***************************************************************************)
Connection(ws, url) ==
    /\ ~crashed
    /\ readyState[ws] = CONNECTING
    /\ \A c \in Conns : c < ws => readyState[c] # CONNECTING
    /\ LET roomId == RoomIdOfUrl(url)
           got == getOrCreateRoom(roomId)
           room == got.room
           heap1 == [got.heap EXCEPT ![room].clients = @ \cup {ws}]
       IN /\ rooms' = got.rooms
          /\ heap' = heap1
          /\ emptySince' = IF room > Len(heap) THEN Append(emptySince, 0)
                                              ELSE [emptySince EXCEPT ![room] = 0]
          /\ roomOf' = [roomOf EXCEPT ![ws] = room]
          /\ roomIdOf' = [roomIdOf EXCEPT ![ws] = roomId]
          /\ sent' = syncReply(heap1[room].state, ws)
    /\ readyState' = [readyState EXCEPT ![ws] = OPEN]
    /\ ev' = Event("connection", ws, url)
    /\ threw' = NoConn
    /\ UNCHANGED <<revision, clock, timers, crashed>>

(***************************************************************************)
(* ws.on('message'): one inbound text from an open connection.  throws is  *)
(* the recipient whose send() throws during the broadcast, NoConn when     *)
(* every send() returns.                                                   *)
(***************************************************************************)
Message(ws, raw, throws) ==
    /\ ~crashed
    /\ readyState[ws] = OPEN
    /\ throws # NoConn =>
          /\ IsAction(JSONparse(raw))
          /\ throws \in heap[roomOf[ws]].clients
          /\ readyState[throws] = OPEN
          /\ throws # exceptOf(JSONparse(raw), ws)
    /\ threw' = throws
    /\ LET msg == JSONparse(raw)
           room == roomOf[ws]
       IN IF ~msg.ok
          THEN /\ crashed' = ~CatchesSyntaxError
               /\ sent' = Nothing
               /\ UNCHANGED heap
          ELSE IF ThrowsOnType(msg)
          THEN /\ crashed' = TRUE
               /\ sent' = Nothing
               /\ UNCHANGED heap
          ELSE IF IsAction(msg)
          THEN /\ heap' = [heap EXCEPT ![room].state = applyAction(@, msg, clock)]
               /\ sent' = broadcast(room, msg, exceptOf(msg, ws), throws)
               /\ crashed' = (throws # NoConn /\ ~CatchesSendError)
          ELSE IF TypeIs(msg, "syncRequest")
          THEN /\ sent' = syncReply(heap[room].state, ws)
               /\ UNCHANGED <<heap, crashed>>
          ELSE /\ sent' = Nothing
               /\ UNCHANGED <<heap, crashed>>
    /\ ev' = Event("message", ws, raw)
    /\ UNCHANGED <<revision, clock, rooms, readyState, roomOf, roomIdOf, timers, emptySince>>

(***************************************************************************)
(* The transport starts closing a connection (a close frame arrived, the   *)
(* socket ended): readyState leaves OPEN before the close event is emitted.*)
(***************************************************************************)
BeginClose(ws) ==
    /\ ~crashed
    /\ readyState[ws] = OPEN
    /\ readyState' = [readyState EXCEPT ![ws] = CLOSING]
    /\ sent' = Nothing
    /\ ev' = Event("closing", ws, "")
    /\ threw' = NoConn
    /\ UNCHANGED <<revision, clock, rooms, heap, roomOf, roomIdOf, timers, emptySince, crashed>>

(***************************************************************************)
(* ws.on('close').  The handlers of a closed connection never run again,   *)
(* so its closure is dropped with it.                                      *)
(***************************************************************************)
\* A close handler that schedules no cleanup.
CloseWithoutTimer(ws) ==
    /\ ~crashed
    /\ readyState[ws] \in {OPEN, CLOSING}
    /\ LET room == roomOf[ws]
           heap1 == [heap EXCEPT ![room].clients = @ \ {ws}]
       IN /\ heap' = Collect(heap1, rooms)
          /\ IF Cardinality(heap1[room].clients) = 0
             THEN emptySince' = [emptySince EXCEPT ![room] = clock]
             ELSE UNCHANGED emptySince
    /\ readyState' = [readyState EXCEPT ![ws] = CLOSED]
    /\ roomOf' = [roomOf EXCEPT ![ws] = NoRoom]
    /\ roomIdOf' = [roomIdOf EXCEPT ![ws] = ""]
    /\ sent' = Nothing
    /\ ev' = Event("close", ws, "")
    /\ threw' = NoConn
    /\ UNCHANGED <<revision, clock, rooms, timers, crashed>>

\* A close handler without room.clients.delete(ws).
CloseWithoutDelete(ws) ==
    /\ ~crashed
    /\ readyState[ws] \in {OPEN, CLOSING}
    /\ readyState' = [readyState EXCEPT ![ws] = CLOSED]
    /\ roomOf' = [roomOf EXCEPT ![ws] = NoRoom]
    /\ roomIdOf' = [roomIdOf EXCEPT ![ws] = ""]
    /\ sent' = Nothing
    /\ ev' = Event("close", ws, "")
    /\ threw' = NoConn
    /\ UNCHANGED <<revision, clock, rooms, heap, timers, emptySince, crashed>>

Close(ws) ==
    /\ ~crashed
    /\ readyState[ws] \in {OPEN, CLOSING}
    /\ LET room == roomOf[ws]
           heap1 == [heap EXCEPT ![room].clients = @ \ {ws}]
       IN /\ heap' = Collect(heap1, rooms)
          /\ IF Cardinality(heap1[room].clients) = 0
             THEN /\ timers' = Append(timers, [room |-> room, roomId |-> roomIdOf[ws],
                                               due |-> clock + IdleMs])
                  /\ emptySince' = [emptySince EXCEPT ![room] = clock]
             ELSE UNCHANGED <<timers, emptySince>>
    /\ readyState' = [readyState EXCEPT ![ws] = CLOSED]
    /\ roomOf' = [roomOf EXCEPT ![ws] = NoRoom]
    /\ roomIdOf' = [roomIdOf EXCEPT ![ws] = ""]
    /\ sent' = Nothing
    /\ ev' = Event("close", ws, "")
    /\ threw' = NoConn
    /\ UNCHANGED <<revision, clock, rooms, crashed>>

(***************************************************************************)
(* The callback given to setTimeout in the close handler.  Every timer has *)
(* the same delay, so they come due in creation order; a callback runs at  *)
(* or after its due time.                                                  *)
(***************************************************************************)
\* A timer callback without the test of room.clients.size.
TimerFiresUnconditionally ==
    /\ ~crashed
    /\ timers # <<>>
    /\ Head(timers).due <= clock
    /\ LET t == Head(timers)
           rooms1 == [rooms EXCEPT ![t.roomId] = NoRoom]
       IN /\ rooms' = rooms1
          /\ heap' = Collect(heap, rooms1)
          /\ ev' = Event("timer", NoConn, t.roomId)
    /\ timers' = Tail(timers)
    /\ sent' = Nothing
    /\ threw' = NoConn
    /\ UNCHANGED <<revision, clock, readyState, roomOf, roomIdOf, emptySince, crashed>>

TimerFires ==
    /\ ~crashed
    /\ timers # <<>>
    /\ Head(timers).due <= clock
    /\ LET t == Head(timers)
           rooms1 == IF Cardinality(heap[t.room].clients) = 0
                     THEN [rooms EXCEPT ![t.roomId] = NoRoom]
                     ELSE rooms
       IN /\ rooms' = rooms1
          /\ heap' = Collect(heap, rooms1)
          /\ ev' = Event("timer", NoConn, t.roomId)
    /\ timers' = Tail(timers)
    /\ sent' = Nothing
    /\ threw' = NoConn
    /\ UNCHANGED <<revision, clock, readyState, roomOf, roomIdOf, emptySince, crashed>>

(***************************************************************************)
(* Time passes between callbacks.                                          *)
(***************************************************************************)
Tick ==
    /\ ~crashed
    /\ clock < MaxTicks * TickMs
    /\ clock' = clock + TickMs
    /\ sent' = Nothing
    /\ ev' = Event("tick", NoConn, "")
    /\ threw' = NoConn
    /\ UNCHANGED <<revision, rooms, heap, readyState, roomOf, roomIdOf, timers, emptySince, crashed>>

(***************************************************************************)
(* The history variable intended: for every Room object, the playing and   *)
(* time that the actions applied to it since its state was last reset (by  *)
(* its creation or by a setSource) were meant to leave: playing as the     *)
(* last play or pause says, time as the last action that carries one says. *)
(***************************************************************************)
FreshIntent == [playing |-> FALSE, time |-> JNum(0)]
NoIntent == [playing |-> FALSE, time |-> Undefined]

\* The time an action sets: a seek always sets one, a play or pause when it
\* carries one.
SetsTime(msg) ==
    \/ TypeIs(msg, "seek")
    \/ (TypeIs(msg, "play") \/ TypeIs(msg, "pause")) /\ msg.time.k \notin {"undefined", "null"}

TimeSet(msg) ==
    IF TypeIs(msg, "seek") /\ Falsy(msg.time) THEN JNum(0) ELSE msg.time

IntentOf(i, msg) ==
    IF TypeIs(msg, "setSource") THEN FreshIntent
    ELSE [playing |-> IF TypeIs(msg, "play") THEN TRUE
                      ELSE IF TypeIs(msg, "pause") THEN FALSE
                      ELSE i.playing,
          time |-> IF SetsTime(msg) THEN TimeSet(msg) ELSE i.time]

Recorded ==
    intended' =
        IF heap' = <<>> THEN <<>>
        ELSE [r \in DOMAIN heap' |->
                IF heap'[r].state = NoState THEN NoIntent
                ELSE IF r > Len(heap) THEN FreshIntent
                ELSE IF ev'.kind = "message" /\ r = roomOf[ev'.conn]
                THEN IntentOf(intended[r], JSONparse(ev'.raw))
                ELSE intended[r]]

\* The histories of SpecOrder are not kept elsewhere.
NotLogged == UNCHANGED <<processed, delivered>>

(***************************************************************************)
(* Spec: either definition of the handlers and every message text;         *)
(* MsgConns connections, all to the same room, and MaxMessages messages.   *)
(***************************************************************************)
Next ==
    \/ \E ws \in 1..MsgConns, url \in OneRoomUrls :
          Connection(ws, url) /\ Recorded /\ NotLogged /\ UNCHANGED received
    \/ \E ws \in 1..MsgConns, raw \in RawInputs, throws \in {NoConn} \cup (1..MsgConns) :
          /\ received < MaxMessages
          /\ received' = received + 1
          /\ Message(ws, raw, throws)
          /\ Recorded /\ NotLogged
    \/ \E ws \in 1..MsgConns : BeginClose(ws) /\ Recorded /\ NotLogged /\ UNCHANGED received
    \/ \E ws \in 1..MsgConns : Close(ws) /\ Recorded /\ NotLogged /\ UNCHANGED received
    \/ TimerFires /\ Recorded /\ NotLogged /\ UNCHANGED received
    \/ Tick /\ Recorded /\ NotLogged /\ UNCHANGED received

Spec == Init /\ [][Next]_vars

(***************************************************************************)
(* SpecRooms: every connection and every request url, any number of        *)
(* messages out of RoomInputs.  No text of RoomInputs is a setSource, the  *)
(* one message the two definitions of the handlers treat differently, so   *)
(* the first definition stands for both.  Every send() returns.            *)
(***************************************************************************)
InitRooms == Init /\ revision = 1

NextRooms ==
    \/ \E ws \in Conns, url \in Urls : Connection(ws, url) /\ Recorded /\ NotLogged /\ UNCHANGED received
    \/ \E ws \in Conns, raw \in RoomInputs :
          Message(ws, raw, NoConn) /\ Recorded /\ NotLogged /\ UNCHANGED received
    \/ \E ws \in Conns : BeginClose(ws) /\ Recorded /\ NotLogged /\ UNCHANGED received
    \/ \E ws \in Conns : Close(ws) /\ Recorded /\ NotLogged /\ UNCHANGED received
    \/ TimerFires /\ Recorded /\ NotLogged /\ UNCHANGED received
    \/ Tick /\ Recorded /\ NotLogged /\ UNCHANGED received

SpecRooms == InitRooms /\ [][NextRooms]_vars

(***************************************************************************)
(* SpecLive: SpecRooms with MsgConns connections, where a timer that is    *)
(* due is eventually run and time does not stop before the last clock      *)
(* value of the model.                                                     *)
(***************************************************************************)
TimerStep == TimerFires /\ Recorded /\ NotLogged /\ UNCHANGED received
TickStep == Tick /\ Recorded /\ NotLogged /\ UNCHANGED received

NextLive ==
    \/ \E ws \in 1..MsgConns, url \in Urls :
          Connection(ws, url) /\ Recorded /\ NotLogged /\ UNCHANGED received
    \/ \E ws \in 1..MsgConns, raw \in RoomInputs :
          Message(ws, raw, NoConn) /\ Recorded /\ NotLogged /\ UNCHANGED received
    \/ \E ws \in 1..MsgConns : BeginClose(ws) /\ Recorded /\ NotLogged /\ UNCHANGED received
    \/ \E ws \in 1..MsgConns : Close(ws) /\ Recorded /\ NotLogged /\ UNCHANGED received
    \/ TimerStep
    \/ TickStep

SpecLive == InitRooms /\ [][NextLive]_vars /\ WF_vars(TimerStep) /\ WF_vars(TickStep)

(***************************************************************************)
(* SpecOrder: Spec over the texts of OrderInputs, every send() returning,  *)
(* with the two histories kept.  processed is, for every Room, the actions *)
(* the message handler applied to it, each with the clock it was applied   *)
(* at.  A socket hands its client the payloads in the order of the send()  *)
(* calls; delivered is, for every connected handle, the position in its    *)
(* Room's processed actions up to which the echoes passed to its send()    *)
(* so far are found there in the same order: every echo is looked up after *)
(* the position of the one before, and delivered is OutOfOrder from the    *)
(* first echo that is not found.                                           *)
(***************************************************************************)
OutOfOrder == 0 - 1

Earliest(S) == CHOOSE j \in S : \A k \in S : j <= k

RECURSIVE MatchFrom(_, _, _)
MatchFrom(log, pos, payloads) ==
    IF payloads = <<>> \/ pos = OutOfOrder THEN pos
    ELSE IF Head(payloads).type # "echo" THEN MatchFrom(log, pos, Tail(payloads))
    ELSE LET later == { j \in DOMAIN log : j > pos /\ log[j].msg = Head(payloads).msg }
         IN IF later = {} THEN OutOfOrder
            ELSE MatchFrom(log, Earliest(later), Tail(payloads))

OrderInputs == {
    "{\"type\":\"setSource\",\"src\":\"a.mp4\"}",
    "{\"type\":\"play\",\"time\":7}",
    "{\"type\":\"syncRequest\"}" }

Logged ==
    /\ processed' =
          IF heap' = <<>> THEN <<>>
          ELSE [r \in DOMAIN heap' |->
                  IF heap'[r].state = NoState \/ r > Len(heap) THEN <<>>
                  ELSE IF /\ ev'.kind = "message"
                          /\ r = roomOf[ev'.conn]
                          /\ IsAction(JSONparse(ev'.raw))
                  THEN Append(processed[r], [msg |-> JSONparse(ev'.raw), at |-> clock])
                  ELSE processed[r]]
    /\ delivered' =
          [c \in Conns |->
              IF readyState'[c] \notin {OPEN, CLOSING} THEN 0
              ELSE MatchFrom(processed'[roomOf'[c]], delivered[c], sent'[c])]

NextOrder ==
    \/ \E ws \in 1..MsgConns, url \in OneRoomUrls :
          Connection(ws, url) /\ Recorded /\ Logged /\ UNCHANGED received
    \/ \E ws \in 1..MsgConns, raw \in OrderInputs :
          /\ received < MaxMessages
          /\ received' = received + 1
          /\ Message(ws, raw, NoConn)
          /\ Recorded /\ Logged
    \/ \E ws \in 1..MsgConns : BeginClose(ws) /\ Recorded /\ Logged /\ UNCHANGED received
    \/ \E ws \in 1..MsgConns : Close(ws) /\ Recorded /\ Logged /\ UNCHANGED received
    \/ TimerFires /\ Recorded /\ Logged /\ UNCHANGED received
    \/ Tick /\ Recorded /\ Logged /\ UNCHANGED received

SpecOrder == Init /\ [][NextOrder]_vars

(***************************************************************************)
(* The claims.  ev' names the callback a step ran, sent' what it sent;     *)
(* unprimed variables are the state it started from.                       *)
(***************************************************************************)
\* The message the step handled, and the Room of the connection it came from.
Handled == JSONparse(ev'.raw)
HandledRoom == roomOf[ev'.conn]
HandlesMessage == ev'.kind = "message"
LastMessage == JSONparse(ev.raw)

\* The registry entry of id is deleted by the step.
Removed(id) == rooms[id] # NoRoom /\ rooms'[id] = NoRoom

\* C1: the registry entry of a room id is deleted only when the Room registered
\* under that id has zero clients.
C1_RemovedOnlyWhenEmpty ==
    [][\A id \in RoomIds : Removed(id) => heap[rooms[id]].clients = {}]_vars

\* C2: a Room is removed from the registry only if its client set has been empty
\* for the whole idle window that ends at the removal.
C2_RemovedOnlyAfterIdleWindow ==
    [][\A id \in RoomIds :
          Removed(id) => /\ heap[rooms[id]].clients = {}
                         /\ clock - emptySince[rooms[id]] >= IdleMs]_vars

\* C3: a setSource sets time to 0, playing to false and src to the provided value
\* (null when absent or falsy), and is sent to every open member of the room,
\* the sender included.
C3_SetSourceResetsAndReachesAll ==
    [][(HandlesMessage /\ TypeIs(Handled, "setSource")) =>
          /\ heap'[HandledRoom].state.time = JNum(0)
          /\ heap'[HandledRoom].state.playing = FALSE
          /\ heap'[HandledRoom].state.src =
                (IF Falsy(Handled.src) THEN JNull ELSE Handled.src)
          /\ \A c \in heap[HandledRoom].clients :
                readyState[c] = OPEN => sent'[c] = <<Echo(Handled)>>]_vars

\* What play, pause and seek leave in the state.
IsPlayPauseSeek(msg) == TypeIs(msg, "play") \/ TypeIs(msg, "pause") \/ TypeIs(msg, "seek")
Transition(state, msg, now) ==
    [playing |-> IF TypeIs(msg, "play") THEN TRUE
                 ELSE IF TypeIs(msg, "pause") THEN FALSE ELSE state.playing,
     time |-> IF TypeIs(msg, "seek")
              THEN (IF Falsy(msg.time) THEN JNum(0) ELSE msg.time)
              ELSE (IF msg.time.k \in {"undefined", "null"} THEN state.time ELSE msg.time),
     updatedAt |-> now,
     src |-> state.src]

\* C4: a play, pause or seek is applied to the room state and sent to every other
\* open member of the room; the sender gets no echo.
C4_PlayPauseSeekSkipSender ==
    [][(HandlesMessage /\ IsPlayPauseSeek(Handled)) =>
          /\ heap'[HandledRoom].state = Transition(heap[HandledRoom].state, Handled, clock)
          /\ sent'[ev'.conn] = <<>>
          /\ \A c \in heap[HandledRoom].clients \ {ev'.conn} :
                readyState[c] = OPEN => sent'[c] = <<Echo(Handled)>>]_vars

C4_Witness ==
    /\ ev.kind = "message"
    /\ IsPlayPauseSeek(LastMessage)
    /\ readyState[ev.conn] = OPEN
    /\ sent[ev.conn] = <<>>
    /\ \E c \in Conns \ {ev.conn} : sent[c] = <<Echo(LastMessage)>>

\* C5: a broadcast sends the message exactly once to each member of the room that
\* is open and not the excluded handle, and nothing to anyone else; the client
\* sets are as before and the state is the one applyAction left.
C5_BroadcastToOpenMembersOnly ==
    [][(HandlesMessage /\ IsAction(Handled)) =>
          /\ \E except \in {NoConn, ev'.conn} :
                \A c \in Conns :
                   sent'[c] = IF /\ c \in heap[HandledRoom].clients
                                 /\ readyState[c] = OPEN
                                 /\ c # except
                              THEN <<Echo(Handled)>>
                              ELSE <<>>
          /\ \A r \in DOMAIN heap :
                /\ heap'[r].clients = heap[r].clients
                /\ heap'[r].state = IF r = HandledRoom
                                    THEN applyAction(heap[r].state, Handled, clock)
                                    ELSE heap[r].state]_vars

C5_Witness ==
    /\ ev.kind = "message"
    /\ IsAction(LastMessage)
    /\ \E c \in heap[roomOf[ev.conn]].clients : readyState[c] = CLOSING /\ sent[c] = <<>>
    /\ \E c \in heap[roomOf[ev.conn]].clients : sent[c] = <<Echo(LastMessage)>>

\* C6: a syncRequest sends exactly one syncState, to the requester, carrying the
\* room's state; nobody else is sent anything and the rooms are unchanged.
C6_SyncRequestRepliesToRequesterOnly ==
    [][(HandlesMessage /\ TypeIs(Handled, "syncRequest")) =>
          /\ sent' = [c \in Conns |-> IF c = ev'.conn
                                      THEN <<SyncState(heap[HandledRoom].state)>>
                                      ELSE <<>>]
          /\ heap' = heap
          /\ rooms' = rooms]_vars

C6_Witness ==
    /\ ev.kind = "message"
    /\ TypeIs(LastMessage, "syncRequest")
    /\ sent[ev.conn] = <<SyncState(heap[roomOf[ev.conn]].state)>>
    /\ heap[roomOf[ev.conn]].state.playing
    /\ \E c \in heap[roomOf[ev.conn]].clients \ {ev.conn} :
          readyState[c] = OPEN /\ sent[c] = <<>>
    /\ \E c \in Conns :
          readyState[c] = OPEN /\ roomOf[c] # roomOf[ev.conn] /\ sent[c] = <<>>

\* C7: the connection handler sends the joining client exactly one syncState, whose
\* state is the state of the room at that moment (what the earlier actions left
\* in the registered Room, the default state in a new one), and a handle is sent
\* nothing before its connection is handled.
C7_JoinSendsOneSyncState ==
    [][/\ ev'.kind = "connection" =>
            /\ sent'[ev'.conn] = <<SyncState(heap'[roomOf'[ev'.conn]].state)>>
            /\ heap'[roomOf'[ev'.conn]].state =
                  IF rooms[RoomIdOfUrl(ev'.raw)] # NoRoom
                  THEN heap[rooms[RoomIdOfUrl(ev'.raw)]].state
                  ELSE DefaultState(clock)
       /\ \A c \in Conns : readyState'[c] = CONNECTING => sent'[c] = <<>>]_vars

C7_Witness ==
    /\ ev.kind = "connection"
    /\ sent[ev.conn] = <<SyncState(heap[roomOf[ev.conn]].state)>>
    /\ heap[roomOf[ev.conn]].state.playing
    /\ heap[roomOf[ev.conn]].state.time = JNum(7)

\* C8: a text that is not valid JSON changes nothing, sends nothing and raises
\* nothing; the connection stays joined.
C8_MalformedJsonHasNoEffect ==
    [][(HandlesMessage /\ ~Handled.ok) =>
          /\ UNCHANGED <<rooms, heap, readyState, roomOf, roomIdOf, timers>>
          /\ sent' = Nothing
          /\ ~crashed'
          /\ ev'.conn \in heap'[roomOf'[ev'.conn]].clients]_vars

C8_Witness ==
    /\ ev.kind = "message"
    /\ ~LastMessage.ok
    /\ ~crashed
    /\ readyState[ev.conn] = OPEN
    /\ ev.conn \in heap[roomOf[ev.conn]].clients

\* The five recognized actions.
IsRecognized(msg) == IsAction(msg) \/ TypeIs(msg, "syncRequest")

\* C9: a text that decodes as JSON but is none of the five actions is dropped:
\* the handler raises nothing, changes nothing and sends nothing.
C9_UnrecognizedJsonIsDropped ==
    [][(HandlesMessage /\ Handled.ok /\ ~IsRecognized(Handled)) =>
          /\ UNCHANGED <<rooms, heap, readyState, roomOf, roomIdOf, timers>>
          /\ sent' = Nothing
          /\ ~crashed']_vars

\* C10: the state of every registered Room is well-typed: playing a boolean, time
\* a number, src null or a string.
WellTyped(state) ==
    /\ state.playing \in BOOLEAN
    /\ state.time.k = "number"
    /\ state.src.k \in {"null", "string"}

C10_StateIsWellTyped ==
    \A id \in RoomIds : rooms[id] # NoRoom => WellTyped(heap[rooms[id]].state)

\* C11: last writer wins.  In every Room whose state is in reach, playing and time
\* are what the sequence of play, pause and seek actions applied to it since its
\* state was fresh (created, or reset by a setSource) was meant to leave, from
\* whichever clients and between whichever other events they came: playing as
\* the last play or pause says (false if none), time as the last action that
\* sets it says (0 if none).
C11_LastWriterWins ==
    \A r \in DOMAIN heap :
        heap[r].state # NoState =>
            /\ heap[r].state.playing = intended[r].playing
            /\ heap[r].state.time = intended[r].time

\* A seek that carries no time, from the second client, after a play: playing is
\* what the play left, time what the seek left.
C11_Witness ==
    /\ received = MaxMessages
    /\ ev.kind = "message"
    /\ ev.conn = 2
    /\ ev.raw = "{\"type\":\"seek\"}"
    /\ heap[roomOf[ev.conn]].state.playing
    /\ heap[roomOf[ev.conn]].state.time = JNum(0)
    /\ heap[roomOf[ev.conn]].state.src = JNull
    /\ intended[roomOf[ev.conn]] = [playing |-> TRUE, time |-> JNum(0)]

\* C12: the updatedAt of a Room in reach never decreases: a step that applies a
\* setSource, play, pause or seek to the Room sets it to the clock, every other
\* step (join, close, syncRequest, unknown type, malformed text, timer, the
\* passing of time, an action applied to another Room) leaves it as it was.
C12_UpdatedAtNeverDecreases ==
    [][\A r \in DOMAIN heap :
          heap'[r].state # NoState =>
             /\ heap'[r].state.updatedAt >= heap[r].state.updatedAt
             /\ heap'[r].state.updatedAt =
                   IF HandlesMessage /\ IsAction(Handled) /\ r = HandledRoom
                   THEN clock'
                   ELSE heap[r].state.updatedAt]_vars

C12_Witness ==
    /\ ev.kind = "message"
    /\ IsAction(LastMessage)
    /\ clock > 0
    /\ heap[roomOf[ev.conn]].state.updatedAt = clock
    /\ Cardinality(heap[roomOf[ev.conn]].clients) > 1

\* C13: a join with an id that has no registry entry registers a new Room under
\* it, with playing false, time 0, src null and the joiner as its only client; a
\* join with a registered id adds the joiner to the Room registered under it,
\* whose state and other clients stay.  The entries of the other ids and the
\* other Rooms are untouched, and no Room is registered under two ids.
C13_JoinCreatesOrReturnsRoom ==
    [][ev'.kind = "connection" =>
          LET id == RoomIdOfUrl(ev'.raw)
              room == roomOf'[ev'.conn]
          IN /\ rooms'[id] = room
             /\ room # NoRoom
             /\ \A other \in RoomIds \ {id} : rooms'[other] = rooms[other] /\ rooms'[other] # room
             /\ IF rooms[id] = NoRoom
                THEN /\ room \notin DOMAIN heap
                     /\ heap'[room].state.playing = FALSE
                     /\ heap'[room].state.time = JNum(0)
                     /\ heap'[room].state.src = JNull
                     /\ heap'[room].clients = {ev'.conn}
                ELSE /\ room = rooms[id]
                     /\ heap'[room].state = heap[room].state
                     /\ heap'[room].clients = heap[room].clients \cup {ev'.conn}
             /\ \A r \in DOMAIN heap : r # room => heap'[r] = heap[r]]_vars

\* A third client has joined a room that holds two others and a state they left.
C13_Witness ==
    /\ ev.kind = "connection"
    /\ rooms[RoomIdOfUrl(ev.raw)] = roomOf[ev.conn]
    /\ Cardinality(heap[roomOf[ev.conn]].clients) = 3
    /\ heap[roomOf[ev.conn]].state.playing
    /\ heap[roomOf[ev.conn]].state.updatedAt > 0

\* C14: when the send() of one recipient throws during a broadcast, the exception
\* is swallowed: send() is called once for that recipient and once for every
\* other open member that is not excluded, those after it included; the state
\* is the one the action left; the handler ends without an exception.
C14_SendFailureIsSwallowed ==
    [][(HandlesMessage /\ threw' # NoConn) =>
          /\ IsAction(Handled)
          /\ Len(sent'[threw']) = 1
          /\ \A c \in heap[HandledRoom].clients :
                (readyState[c] = OPEN /\ c # ev'.conn) => sent'[c] = <<Echo(Handled)>>
          /\ \A c \in Conns : Len(sent'[c]) <= 1
          /\ heap'[HandledRoom].state.playing = intended'[HandledRoom].playing
          /\ heap'[HandledRoom].state.time = intended'[HandledRoom].time
          /\ heap'[HandledRoom].state.updatedAt = clock
          /\ heap'[HandledRoom].clients = heap[HandledRoom].clients
          /\ ~crashed']_vars

\* The send() to the first client threw and the second, later in the loop, was
\* still sent the message.
C14_Witness ==
    /\ ev.kind = "message"
    /\ threw # NoConn
    /\ \E c \in heap[roomOf[ev.conn]].clients :
          c > threw /\ readyState[c] = OPEN /\ sent[c] = <<Echo(LastMessage)>>
    /\ ~crashed

\* C15: rooms are isolated.  A step that handles a message from a client of a Room
\* leaves every other Room (state and client set) and the registry as they
\* were, and calls send() for no client of another Room.
C15_RoomsAreIsolated ==
    [][HandlesMessage =>
          /\ \A r \in DOMAIN heap : r # HandledRoom => heap'[r] = heap[r]
          /\ \A c \in Conns : roomOf[c] # HandledRoom => sent'[c] = <<>>
          /\ heap'[HandledRoom].clients = heap[HandledRoom].clients
          /\ rooms' = rooms]_vars

\* A play reached the sender's room mate while an open client of another room,
\* whose state is still the default, was sent nothing.
C15_Witness ==
    /\ ev.kind = "message"
    /\ IsAction(LastMessage)
    /\ heap[roomOf[ev.conn]].state.playing
    /\ \E c \in heap[roomOf[ev.conn]].clients \ {ev.conn} : sent[c] = <<Echo(LastMessage)>>
    /\ \E c \in Conns :
          /\ readyState[c] = OPEN
          /\ roomOf[c] # roomOf[ev.conn]
          /\ roomIdOf[c] # roomIdOf[ev.conn]
          /\ sent[c] = <<>>
          /\ ~heap[roomOf[c]].state.playing
          /\ heap[roomOf[c]].state.time = JNum(0)

\* C16: every connection handle is in the client set of exactly one Room from the
\* moment its connection is handled until its close event is handled, and in
\* none before and after.
RoomsHolding(c) == { r \in DOMAIN heap : c \in heap[r].clients }

C16_HandleInAtMostOneRoom ==
    \A c \in Conns :
        /\ Cardinality(RoomsHolding(c)) <= 1
        /\ readyState[c] \in {OPEN, CLOSING} => RoomsHolding(c) = {roomOf[c]}
        /\ readyState[c] \in {CONNECTING, CLOSED} => RoomsHolding(c) = {}

\* One handle has closed and is in no Room; two others are joined to two Rooms,
\* one of them with its transport already closing.
C16_Witness ==
    /\ \E c \in Conns : readyState[c] = CLOSED /\ RoomsHolding(c) = {}
    /\ \E c, d \in Conns :
          /\ readyState[c] = OPEN
          /\ readyState[d] = CLOSING
          /\ RoomsHolding(c) # RoomsHolding(d)
          /\ Cardinality(RoomsHolding(c) \cup RoomsHolding(d)) = 2

\* C17: when the Room registered under an id has lost its last client, then either
\* a client joins it or the id is eventually removed from the registry.  The
\* clock of the model stops at MaxTicks * TickMs, so the Rooms in question are
\* those whose idle window ends by then.
LastClock == MaxTicks * TickMs

Abandoned(id) ==
    /\ rooms[id] # NoRoom
    /\ heap[rooms[id]].clients = {}
    /\ emptySince[rooms[id]] + IdleMs <= LastClock

RemovedOrRejoined(id) ==
    \/ rooms[id] = NoRoom
    \/ heap[rooms[id]].clients # {}

C17_AbandonedRoomIsRemoved ==
    \A id \in RoomIds : Abandoned(id) ~> RemovedOrRejoined(id)

\* The timer has removed the entry of a room that nobody joined again.
C17_Witness ==
    /\ ev.kind = "timer"
    /\ rooms[ev.raw] = NoRoom
    /\ \A c \in Conns : roomIdOf[c] # ev.raw
    /\ \E c \in Conns : readyState[c] = CLOSED
    /\ \A r \in DOMAIN heap : heap[r].clients = {}

\* C18: every open connection is a member of the Room that is registered under
\* the room id it connected with, so that the connections open at the same
\* time with the same id are all in one Room.
C18_SameIdSameRoom ==
    \A c \in Conns :
        readyState[c] = OPEN =>
            /\ rooms[roomIdOf[c]] = roomOf[c]
            /\ \A d \in Conns :
                  (readyState[d] = OPEN /\ roomIdOf[d] = roomIdOf[c]) => roomOf[d] = roomOf[c]

\* C19: an action changes only the fields it names.  A seek sets time to the value
\* it carries (0 when absent or falsy) and leaves playing and src; a play or a
\* pause sets playing, leaves src, leaves time when it carries none (absent or
\* null) and replaces it by the time it carries otherwise, 0 included; a message
\* of no recognized type leaves the whole state, updatedAt included.
HasNoTime(msg) == msg.time = Undefined \/ msg.time = JNull

C19_ActionChangesOnlyItsFields ==
    [][HandlesMessage =>
          LET before == heap[HandledRoom].state
              after == heap'[HandledRoom].state
          IN /\ TypeIs(Handled, "seek") =>
                   /\ after.time = (IF Falsy(Handled.time) THEN JNum(0) ELSE Handled.time)
                   /\ after.playing = before.playing
                   /\ after.src = before.src
             /\ (TypeIs(Handled, "play") \/ TypeIs(Handled, "pause")) =>
                   /\ after.playing = TypeIs(Handled, "play")
                   /\ after.src = before.src
                   /\ HasNoTime(Handled) => after.time = before.time
                   /\ ~HasNoTime(Handled) => after.time = Handled.time
             /\ (Handled.ok /\ ~IsRecognized(Handled)) => after = before]_vars

\* A pause whose time is null, after a seek to 7: time is the one the seek left.
C19_Witness ==
    /\ ev.kind = "message"
    /\ ev.raw = "{\"type\":\"pause\",\"time\":null}"
    /\ ~heap[roomOf[ev.conn]].state.playing
    /\ heap[roomOf[ev.conn]].state.time = JNum(7)
    /\ heap[roomOf[ev.conn]].state.src = JNull

\* C20: the close of the last client of a registered Room leaves the Room
\* registered with its state; a client that joins the id while the Room is
\* still registered joins that Room and is sent the state it was left with;
\* and a scheduled check that fires while the Room it was scheduled for has a
\* client removes nothing and changes no state.
C20_RejoinBeforeRemovalKeepsRoom ==
    [][/\ (ev'.kind = "close" /\ heap[roomOf[ev'.conn]].clients = {ev'.conn}) =>
            /\ rooms' = rooms
            /\ heap'[roomOf[ev'.conn]].clients = {}
            /\ \A id \in RoomIds :
                  rooms[id] = roomOf[ev'.conn] =>
                     heap'[rooms'[id]].state = heap[rooms[id]].state
       /\ \A id \in RoomIds :
            (/\ ev'.kind = "connection"
             /\ RoomIdOfUrl(ev'.raw) = id
             /\ rooms[id] # NoRoom
             /\ heap[rooms[id]].clients = {}) =>
                /\ rooms'[id] = rooms[id]
                /\ heap'[rooms[id]].clients = {ev'.conn}
                /\ heap'[rooms[id]].state = heap[rooms[id]].state
                /\ sent'[ev'.conn] = <<SyncState(heap[rooms[id]].state)>>
       /\ (ev'.kind = "timer" /\ heap[Head(timers).room].clients # {}) =>
            /\ rooms' = rooms
            /\ heap' = heap]_vars

\* The check scheduled when a room emptied has fired while a later client is
\* connected to it: the room is still registered, with the state the earlier
\* member left.
C20_Witness ==
    /\ ev.kind = "timer"
    /\ rooms[ev.raw] # NoRoom
    /\ \E c \in Conns :
          /\ c > 1
          /\ readyState[1] = CLOSED
          /\ readyState[c] = OPEN
          /\ roomIdOf[c] = ev.raw
          /\ roomOf[c] = rooms[ev.raw]
          /\ heap[roomOf[c]].clients = {c}
          /\ heap[roomOf[c]].state.playing
          /\ heap[roomOf[c]].state.updatedAt = 0

\* C21: what a client is sent arrives in the order the server processed it.  The
\* echoes passed to the send() of a connected handle, in order, are a
\* subsequence of the actions applied to its Room, in order; and a syncState
\* carries the state that results from exactly the actions applied to the Room
\* before the syncRequest (or the connection) it answers.
\* The state a sequence of applied actions leaves in a new Room.
RECURSIVE Replay(_)
Replay(log) ==
    IF log = <<>> THEN DefaultState(0)
    ELSE LET before == Replay(SubSeq(log, 1, Len(log) - 1))
             last == log[Len(log)]
         IN IF TypeIs(last.msg, "setSource")
            THEN [playing |-> FALSE, time |-> JNum(0), updatedAt |-> last.at,
                  src |-> IF Falsy(last.msg.src) THEN JNull ELSE last.msg.src]
            ELSE Transition(before, last.msg, last.at)

ReflectsLog(state, log) ==
    /\ state.playing = Replay(log).playing
    /\ state.time = Replay(log).time
    /\ state.src = Replay(log).src
    /\ log # <<>> => state.updatedAt = Replay(log).updatedAt

\* The actions applied to a Room before the step; none to a Room the step creates.
LogBefore(r) == IF r \in DOMAIN processed THEN processed[r] ELSE <<>>

C21_DeliveredInProcessingOrder ==
    [][/\ \A c \in Conns : delivered'[c] # OutOfOrder
       /\ \A c \in Conns :
            (sent'[c] # <<>> /\ sent'[c][1].type = "echo") =>
               /\ Len(sent'[c]) = 1
               /\ delivered'[c] > delivered[c]
       /\ \A c \in Conns :
            (sent'[c] # <<>> /\ sent'[c][1].type = "syncState") =>
               /\ Len(sent'[c]) = 1
               /\ ReflectsLog(sent'[c][1].state, LogBefore(roomOf'[c]))
               /\ processed'[roomOf'[c]] = LogBefore(roomOf'[c])]_vars

\* The first client sent a play, the second then joined and sent a setSource
\* that the second definition of the handler did not send back to it: the
\* echo reached the first client and is the second of the two actions
\* processed, the first of which it was not sent.
C21_Witness ==
    /\ ev.kind = "message"
    /\ ev.conn = 2
    /\ TypeIs(LastMessage, "setSource")
    /\ sent[1] = <<Echo(LastMessage)>>
    /\ Len(processed[roomOf[1]]) = 2
    /\ TypeIs(processed[roomOf[1]][1].msg, "play")
    /\ delivered[1] = 2
    /\ delivered[2] = 0
    /\ ~heap[roomOf[1]].state.playing
    /\ heap[roomOf[1]].state.src = JStr("a.mp4")

\* C22: the text broadcast for a setSource, play, pause or seek is the inbound
\* message itself, field for field: it is an echo, not a syncState, and it
\* decodes to the same type and the same fields with the same values as the
\* text the server received.
C22_EchoIsInboundMessage ==
    [][(HandlesMessage /\ IsAction(Handled)) =>
          \A c \in Conns :
              sent'[c] # <<>> =>
                 /\ Len(sent'[c]) = 1
                 /\ sent'[c][1].type = "echo"
                 /\ JSONparse(JSONstringify(sent'[c][1].msg)) = JSONparse(ev'.raw)]_vars

\* C23: a connection whose request has no room parameter, or an empty one, joins
\* the room "default", the Room that a request for room=default joins; a
\* request for an id that has no entry is no error: whatever the url, the
\* connection ends joined to the Room registered under its id, is sent that
\* Room's state and nothing is thrown.
DefaultUrls == { "/watchparty", "/watchparty?room=", "/watchparty?room=default" }

C23_DefaultRoomAndUnknownIds ==
    [][ev'.kind = "connection" =>
          LET ws == ev'.conn
              id == IF ev'.raw \in DefaultUrls THEN "default" ELSE "abc"
          IN /\ roomIdOf'[ws] = id
             /\ rooms'[id] # NoRoom
             /\ roomOf'[ws] = rooms'[id]
             /\ rooms[id] # NoRoom => roomOf'[ws] = rooms[id]
             /\ ws \in heap'[rooms'[id]].clients
             /\ readyState'[ws] = OPEN
             /\ sent'[ws] = <<SyncState(heap'[rooms'[id]].state)>>
             /\ ~crashed']_vars

\* A request with an empty room parameter has joined the Room of an earlier
\* client of "default", while the id "abc", unknown until a client asked for
\* it, has a Room of its own with a client.
C23_Witness ==
    /\ ev.kind = "connection"
    /\ ev.raw = "/watchparty?room="
    /\ roomIdOf[ev.conn] = "default"
    /\ roomOf[ev.conn] = rooms["default"]
    /\ Cardinality(heap[rooms["default"]].clients) = 2
    /\ rooms["abc"] # NoRoom
    /\ rooms["abc"] # rooms["default"]
    /\ heap[rooms["abc"]].clients # {}

====
